---- MODULE Spec2Model ----
(***************************************************************************)
(* Model of the tolerant JSON layer of OpenAIService                       *)
(* (src/openai_service.py): the string-literal scanner                     *)
(* _sanitize_json_text, the escalating extractor _extract_json_obj and the *)
(* model-assisted repair _repair_json_with_model.                          *)
(*                                                                         *)
(* A text is a sequence of one-character strings.  A parsed JSON value is  *)
(* a record [t, s, kids]: t is the kind, s the characters of a string or   *)
(* the lexeme of a number, kids the elements of an array or the            *)
(* alternating keys and values of an object.                               *)
(***************************************************************************)
EXTENDS Integers, Sequences, FiniteSets, TLC

\* ------------------------------------------------------------------------
\* Characters
\* ------------------------------------------------------------------------
LF == "\n"
CR == "\r"
TAB == "\t"
FF == "\f"
BS == "<BS>"
SP == " "
QUOTE == "\""
BSL == "\\"

\* the characters _next_nonspace skips, which are also JSON's whitespace
WS == {SP, TAB, CR, LF}

\* characters below U+0020 that a text of the model can hold
ControlChars == {LF, CR, TAB, FF, BS}

\* the characters str.strip() removes at both ends
StripChars == {SP, TAB, CR, LF, FF}

At(s, i) == IF i >= 1 /\ i <= Len(s) THEN s[i] ELSE ""

\* ------------------------------------------------------------------------
\* _sanitize_json_text
\* ------------------------------------------------------------------------
RECURSIVE next_nonspace(_, _)
next_nonspace(s, i) ==
    IF i <= Len(s) /\ s[i] \in WS
    THEN next_nonspace(s, i + 1)
    ELSE IF i <= Len(s) THEN s[i] ELSE ""

\* the scanner's locals before the loop
SanStart == [i |-> 1, out |-> <<>>, in_str |-> FALSE, esc |-> FALSE]

\* inside a literal, directly after a backslash: the character is copied
EscapedCopy(st, ch) ==
    [st EXCEPT !.out = Append(@, ch), !.esc = FALSE, !.i = @ + 1]

\* BackslashCopy without the escape flag
BackslashCopy_NoEsc(st, ch) ==
    [st EXCEPT !.out = Append(@, ch), !.i = @ + 1]

\* inside a literal, a backslash: copied, and the next character is escaped
BackslashCopy(st, ch) ==
    [st EXCEPT !.out = Append(@, ch), !.esc = TRUE, !.i = @ + 1]

\* the delimiters after which a quote closes the literal
Delimiters == {",", "}", "]"}

\* variant: a quote before a colon closes the literal too
QuoteInString_Colon(s, st, ch) ==
    LET nxt == next_nonspace(s, st.i + 1) IN
    IF nxt # "" /\ nxt \notin Delimiters \cup {":"}
    THEN [st EXCEPT !.out = @ \o <<BSL, QUOTE>>, !.i = @ + 1]
    ELSE [st EXCEPT !.out = Append(@, ch), !.in_str = FALSE, !.i = @ + 1]
\* inside a literal, a quote: escaped when the next non-space character
\* exists and is no delimiter, else it closes the literal
QuoteInString(s, st, ch) ==
    LET nxt == next_nonspace(s, st.i + 1) IN
    IF nxt # "" /\ nxt \notin Delimiters
    THEN [st EXCEPT !.out = @ \o <<BSL, QUOTE>>, !.i = @ + 1]
    ELSE [st EXCEPT !.out = Append(@, ch), !.in_str = FALSE, !.i = @ + 1]

\* ControlEscape writing a blank for a control character
ControlEscape_Blank(ch) ==
    IF ch \in {LF, CR, TAB} THEN <<SP>> ELSE <<ch>>

\* inside a literal, any other character: control characters are expanded
ControlEscape(ch) ==
    IF ch = LF THEN <<BSL, "n">>
    ELSE IF ch = CR THEN <<BSL, "r">>
    ELSE IF ch = TAB THEN <<BSL, "t">>
    ELSE <<ch>>

PlainInString(st, ch) ==
    [st EXCEPT !.out = @ \o ControlEscape(ch), !.i = @ + 1]

\* outside a literal: everything is copied, a quote opens a literal
OutsideString(st, ch) ==
    IF ch = QUOTE
    THEN [st EXCEPT !.out = Append(@, ch), !.in_str = TRUE, !.i = @ + 1]
    ELSE [st EXCEPT !.out = Append(@, ch), !.i = @ + 1]

\* one iteration of the while loop
SanStep(s, st) ==
    LET ch == s[st.i] IN
    IF st.in_str
    THEN IF st.esc THEN EscapedCopy(st, ch)
         ELSE IF ch = BSL THEN BackslashCopy(st, ch)
         ELSE IF ch = QUOTE THEN QuoteInString(s, st, ch)
         ELSE PlainInString(st, ch)
    ELSE OutsideString(st, ch)

RECURSIVE SanLoop(_, _)
SanLoop(s, st) == IF st.i > Len(s) THEN st.out ELSE SanLoop(s, SanStep(s, st))

sanitize_json_text(s) == IF s = <<>> THEN s ELSE SanLoop(s, SanStart)

\* ------------------------------------------------------------------------
\* str.strip()
\* ------------------------------------------------------------------------
RECURSIVE LStrip(_)
LStrip(s) == IF s # <<>> /\ Head(s) \in StripChars THEN LStrip(Tail(s)) ELSE s

RECURSIVE RStrip(_)
RStrip(s) ==
    IF s # <<>> /\ s[Len(s)] \in StripChars
    THEN RStrip(SubSeq(s, 1, Len(s) - 1))
    ELSE s

Strip(s) == RStrip(LStrip(s))

\* ------------------------------------------------------------------------
\* json.loads
\* ------------------------------------------------------------------------
JNull == [t |-> "null", s |-> <<>>, kids |-> <<>>]
JTrue == [t |-> "true", s |-> <<>>, kids |-> <<>>]
JFalse == [t |-> "false", s |-> <<>>, kids |-> <<>>]
JString(cs) == [t |-> "string", s |-> cs, kids |-> <<>>]
JNumber(lex) == [t |-> "number", s |-> lex, kids |-> <<>>]
JArray(vs) == [t |-> "array", s |-> <<>>, kids |-> vs]
JObject(kvs) == [t |-> "object", s |-> <<>>, kids |-> kvs]

PFail == [ok |-> FALSE, val |-> JNull, end |-> 0]
POk(v, e) == [ok |-> TRUE, val |-> v, end |-> e]

RECURSIVE SkipWS(_, _)
SkipWS(s, i) == IF i <= Len(s) /\ s[i] \in WS THEN SkipWS(s, i + 1) ELSE i

StartsWith(s, i, lit) ==
    /\ i + Len(lit) - 1 <= Len(s)
    /\ SubSeq(s, i, i + Len(lit) - 1) = lit

\* the one-character escapes of a JSON string and what they stand for
Unescape(e) ==
    CASE e = QUOTE -> QUOTE
      [] e = BSL -> BSL
      [] e = "/" -> "/"
      [] e = "b" -> BS
      [] e = "f" -> FF
      [] e = "n" -> LF
      [] e = "r" -> CR
      [] e = "t" -> TAB

EscapeLetters == {QUOTE, BSL, "/", "b", "f", "n", "r", "t"}

\* the string scanner, from the character after the opening quote; with
\* strict set a raw control character is an error.  A \u escape is outside
\* the texts of this model and is refused like an unknown escape.
RECURSIVE scanstring(_, _, _, _)
scanstring(s, i, strict, acc) ==
    IF i > Len(s) THEN PFail
    ELSE IF s[i] = QUOTE THEN POk(JString(acc), i + 1)
    ELSE IF s[i] = BSL
         THEN IF At(s, i + 1) \in EscapeLetters
              THEN scanstring(s, i + 2, strict, Append(acc, Unescape(s[i + 1])))
              ELSE PFail
    ELSE IF strict /\ s[i] \in ControlChars THEN PFail
    ELSE scanstring(s, i + 1, strict, Append(acc, s[i]))

Digits == {"0", "1", "2", "3", "4", "5", "6", "7", "8", "9"}

RECURSIVE SkipDigits(_, _)
SkipDigits(s, i) == IF At(s, i) \in Digits THEN SkipDigits(s, i + 1) ELSE i

\* NUMBER_RE: (-?(?:0|[1-9]\d*))(\.\d+)?([eE][-+]?\d+)? matched at i;
\* the index after the match, or 0 when there is none
NumberEnd(s, i) ==
    LET j == IF At(s, i) = "-" THEN i + 1 ELSE i
        k == IF At(s, j) = "0" THEN j + 1
             ELSE IF At(s, j) \in Digits THEN SkipDigits(s, j)
             ELSE 0
        f == IF k # 0 /\ At(s, k) = "." /\ At(s, k + 1) \in Digits
             THEN SkipDigits(s, k + 1) ELSE k
        x == IF f # 0 /\ At(s, f) \in {"e", "E"}
             THEN IF At(s, f + 1) \in {"-", "+"} THEN f + 2 ELSE f + 1
             ELSE 0
        e == IF x # 0 /\ At(s, x) \in Digits THEN SkipDigits(s, x) ELSE f
    IN e

\* dict(pairs): a repeated key keeps its first place and takes the last value
RECURSIVE DictSet(_, _, _)
DictSet(kvs, k, v) ==
    IF kvs = <<>> THEN <<k, v>>
    ELSE IF kvs[1] = k THEN <<k, v>> \o SubSeq(kvs, 3, Len(kvs))
    ELSE <<kvs[1], kvs[2]>> \o DictSet(SubSeq(kvs, 3, Len(kvs)), k, v)

RECURSIVE scan_once(_, _, _)
RECURSIVE JSONObjectRest(_, _, _, _)
RECURSIVE JSONArrayRest(_, _, _, _)

\* JSONObject's loop, i at the character after a key's opening quote
JSONObjectRest(s, i, strict, kvs) ==
    LET key == scanstring(s, i, strict, <<>>) IN
    IF ~key.ok THEN PFail
    ELSE LET c == SkipWS(s, key.end) IN
         IF At(s, c) # ":" THEN PFail
         ELSE LET v == scan_once(s, SkipWS(s, c + 1), strict) IN
              IF ~v.ok THEN PFail
              ELSE LET d == SkipWS(s, v.end)
                       got == DictSet(kvs, key.val, v.val)
                   IN IF At(s, d) = "}" THEN POk(JObject(got), d + 1)
                      ELSE IF At(s, d) # "," THEN PFail
                      ELSE LET q == SkipWS(s, d + 1) IN
                           IF At(s, q) # QUOTE THEN PFail
                           ELSE JSONObjectRest(s, q + 1, strict, got)

\* JSONArray's loop, i at the first character of an element
JSONArrayRest(s, i, strict, vs) ==
    LET v == scan_once(s, i, strict) IN
    IF ~v.ok THEN PFail
    ELSE LET d == SkipWS(s, v.end) IN
         IF At(s, d) = "]" THEN POk(JArray(Append(vs, v.val)), d + 1)
         ELSE IF At(s, d) # "," THEN PFail
         ELSE JSONArrayRest(s, SkipWS(s, d + 1), strict, Append(vs, v.val))

scan_once(s, i, strict) ==
    LET c == At(s, i) IN
    IF c = "" THEN PFail
    ELSE IF c = QUOTE THEN scanstring(s, i + 1, strict, <<>>)
    ELSE IF c = "{"
         THEN LET q == SkipWS(s, i + 1) IN
              IF At(s, q) = "}" THEN POk(JObject(<<>>), q + 1)
              ELSE IF At(s, q) # QUOTE THEN PFail
              ELSE JSONObjectRest(s, q + 1, strict, <<>>)
    ELSE IF c = "["
         THEN LET q == SkipWS(s, i + 1) IN
              IF At(s, q) = "]" THEN POk(JArray(<<>>), q + 1)
              ELSE JSONArrayRest(s, q, strict, <<>>)
    ELSE IF StartsWith(s, i, <<"n", "u", "l", "l">>) THEN POk(JNull, i + 4)
    ELSE IF StartsWith(s, i, <<"t", "r", "u", "e">>) THEN POk(JTrue, i + 4)
    ELSE IF StartsWith(s, i, <<"f", "a", "l", "s", "e">>) THEN POk(JFalse, i + 5)
    ELSE IF NumberEnd(s, i) # 0
         THEN POk(JNumber(SubSeq(s, i, NumberEnd(s, i) - 1)), NumberEnd(s, i))
    ELSE IF StartsWith(s, i, <<"N", "a", "N">>)
         THEN POk(JNumber(<<"N", "a", "N">>), i + 3)
    ELSE IF StartsWith(s, i, <<"I", "n", "f", "i", "n", "i", "t", "y">>)
         THEN POk(JNumber(SubSeq(s, i, i + 7)), i + 8)
    ELSE IF StartsWith(s, i, <<"-", "I", "n", "f", "i", "n", "i", "t", "y">>)
         THEN POk(JNumber(SubSeq(s, i, i + 8)), i + 9)
    ELSE PFail

\* JSONDecoder.decode: one value with whitespace around it and nothing else
decode(s, strict) ==
    LET v == scan_once(s, SkipWS(s, 1), strict) IN
    IF v.ok /\ SkipWS(s, v.end) = Len(s) + 1 THEN v ELSE PFail

\* json.loads(s): the decoder's default is strict
loads(s) == decode(s, TRUE)

\* ------------------------------------------------------------------------
\* Input texts
\* ------------------------------------------------------------------------
MaxLen == 3
MaxBody == 4

SeqsUpTo(A, n) == UNION {[1..k -> A] : k \in 0..n}

\* every text of at most MaxLen characters over the structural characters,
\* the quote, the backslash, whitespace, a letter and a digit
Alphabet ==
    {"{", "}", "[", "]", QUOTE, ":", ",", BSL, LF, CR, TAB, SP, "a", "1"}
ShortTexts == SeqsUpTo(Alphabet, MaxLen)

\* the contents of a string literal as a model may emit it
BodyAlphabet == {"a", QUOTE, BSL, LF, SP, ","}
Bodies == SeqsUpTo(BodyAlphabet, MaxBody)

Prose == {<<>>, <<"a", SP>>}
Commentary == {<<>>, <<SP, "a">>}

\* {"a":1} and {"a":"<body>"}, with or without a blank after the colon,
\* bare or between prose and commentary
Colons == {<<":">>, <<":", SP>>}
ObjectText(colon, val) == <<"{", QUOTE, "a", QUOTE>> \o colon \o val \o <<"}">>
StringText(body) == <<QUOTE>> \o body \o <<QUOTE>>
ObjectTexts ==
    {pre \o ObjectText(colon, val) \o post :
        pre \in Prose, post \in Commentary, colon \in Colons,
        val \in {<<"1">>} \cup {StringText(b) : b \in Bodies}}

\* ["<body>"]
ArrayTexts == {<<"[">> \o StringText(b) \o <<"]">> : b \in Bodies}

LiteralTexts ==
    {<<"n", "u", "l", "l">>, <<"t", "r", "u", "e">>, <<"f", "a", "l", "s", "e">>}

Texts == ShortTexts \cup ObjectTexts \cup ArrayTexts \cup LiteralTexts

\* what the repair request can come back with: an error of the API client,
\* or a response whose output_text is one of these
ApiError == <<"APIError">>
RepairTexts ==
    { <<>>,
      <<"a">>,
      <<"1">>,
      <<"[", "1", "]">>,
      <<"{", "}">>,
      <<SP, "{", "}", LF>>,
      <<QUOTE, LF, QUOTE>>,
      <<"[", QUOTE, "a", QUOTE, "a", QUOTE, "]">>,
      <<"{", QUOTE, "a", QUOTE, ":", "1", "}">> }

\* ------------------------------------------------------------------------
\* State
\* ------------------------------------------------------------------------
VARIABLES
    \* _sanitize_json_text: argument, locals, position
    s, i, out, in_str, esc, spc,
    \* _extract_json_obj: argument, locals, position, outcome
    text, raw, cleaned, maybe, bad_text, pc, ret, err,
    \* the calls made so far, in order
    log,
    \* a normalization step: the extracted value, the pose_style argument,
    \* the compact descriptor, the outcome, the position
    data, pose_style, compact_dna, norm, npc,
    \* the page: the handler that runs and its position, whether the SDK
    \* takes the text argument, the requests and exceptions of the running
    \* handler, the exception that left it, the stored results, the clicks
    feature, cpc, sdk_text, calls, cerr, poser_data, caption_out, clicks,
    \* the identity descriptor of the session and the position of
    \* compact_master_dna_for_poser
    master_dna, dpc,
    \* the Poser view: the chosen option, the index read from it, the entry
    \* picked, the position
    choice, idx, picked, vpc

sanvars == <<s, i, out, in_str, esc, spc>>
exvars == <<text, raw, cleaned, maybe, bad_text, pc, ret, err, log>>
normvars == <<data, pose_style, compact_dna, norm, npc>>
appvars == <<feature, cpc, sdk_text, calls, cerr, poser_data, caption_out, clicks>>
dnavars == <<master_dna, dpc>>
viewvars == <<choice, idx, picked, vpc>>
vars == <<s, i, out, in_str, esc, spc,
          text, raw, cleaned, maybe, bad_text, pc, ret, err, log,
          data, pose_style, compact_dna, norm, npc,
          feature, cpc, sdk_text, calls, cerr, poser_data, caption_out, clicks,
          master_dna, dpc, choice, idx, picked, vpc>>

SanIdle ==
    /\ s = <<>> /\ i = 1 /\ out = <<>>
    /\ in_str = FALSE /\ esc = FALSE /\ spc = "idle"

ExIdle ==
    /\ text = <<>> /\ raw = <<>> /\ cleaned = <<>> /\ maybe = <<>>
    /\ bad_text = <<>> /\ pc = "idle" /\ ret = JNull /\ err = "" /\ log = <<>>

NoOutcome == [raised |-> FALSE, val |-> JNull]

NormIdle ==
    /\ data = JNull /\ pose_style = <<>> /\ compact_dna = <<>>
    /\ norm = NoOutcome /\ npc = "idle"

\* no handler runs and nothing is stored (app.py lines 85-86)
AppIdle ==
    /\ feature = "none" /\ cpc = "idle" /\ sdk_text = TRUE
    /\ calls = <<>> /\ cerr = "" /\ clicks = 0
    /\ poser_data = JNull /\ caption_out = JNull

\* no descriptor given, nothing compacted
DnaIdle == master_dna = <<>> /\ dpc = "idle"

\* the Poser view has shown nothing
ViewIdle == choice = JNull /\ idx = 0 /\ picked = JNull /\ vpc = "idle"

\* ------------------------------------------------------------------------
\* _sanitize_json_text, one loop iteration per step
\* ------------------------------------------------------------------------
SanInit ==
    /\ s \in Texts
    /\ i = 1 /\ out = <<>> /\ in_str = FALSE /\ esc = FALSE
    /\ spc = "call"
    /\ ExIdle
    /\ NormIdle
    /\ AppIdle
    /\ DnaIdle
    /\ ViewIdle

\* if not s: return s
SanEmpty ==
    /\ spc = "call" /\ s = <<>>
    /\ out' = s
    /\ spc' = "returned"
    /\ UNCHANGED <<s, i, in_str, esc>>
    /\ UNCHANGED exvars
    /\ UNCHANGED normvars
    /\ UNCHANGED appvars
    /\ UNCHANGED dnavars
    /\ UNCHANGED viewvars

SanEnter ==
    /\ spc = "call" /\ s # <<>>
    /\ i' = SanStart.i /\ out' = SanStart.out
    /\ in_str' = SanStart.in_str /\ esc' = SanStart.esc
    /\ spc' = "scan"
    /\ UNCHANGED s
    /\ UNCHANGED exvars
    /\ UNCHANGED normvars
    /\ UNCHANGED appvars
    /\ UNCHANGED dnavars
    /\ UNCHANGED viewvars

SanScan ==
    /\ spc = "scan" /\ i <= Len(s)
    /\ LET st == SanStep(s, [i |-> i, out |-> out, in_str |-> in_str, esc |-> esc])
       IN /\ i' = st.i /\ out' = st.out
          /\ in_str' = st.in_str /\ esc' = st.esc
    /\ UNCHANGED <<s, spc>>
    /\ UNCHANGED exvars
    /\ UNCHANGED normvars
    /\ UNCHANGED appvars
    /\ UNCHANGED dnavars
    /\ UNCHANGED viewvars

\* return "".join(out)
SanReturn ==
    /\ spc = "scan" /\ i > Len(s)
    /\ spc' = "returned"
    /\ UNCHANGED <<s, i, out, in_str, esc>>
    /\ UNCHANGED exvars
    /\ UNCHANGED normvars
    /\ UNCHANGED appvars
    /\ UNCHANGED dnavars
    /\ UNCHANGED viewvars

SanNext == SanEmpty \/ SanEnter \/ SanScan \/ SanReturn

SpecSan == SanInit /\ [][SanNext]_vars

\* ------------------------------------------------------------------------
\* _extract_json_obj and _repair_json_with_model
\* ------------------------------------------------------------------------
Init ==
    /\ text \in Texts
    /\ raw = <<>> /\ cleaned = <<>> /\ maybe = <<>> /\ bad_text = <<>>
    /\ pc = "direct" /\ ret = JNull /\ err = "" /\ log = <<>>
    /\ SanIdle
    /\ NormIdle
    /\ AppIdle
    /\ DnaIdle
    /\ ViewIdle

\* s.find(c) and s.rfind(c), 1-based, 0 when c does not occur
Find(t, c) ==
    IF \E k \in 1..Len(t) : t[k] = c
    THEN CHOOSE k \in 1..Len(t) : t[k] = c /\ \A j \in 1..(k - 1) : t[j] # c
    ELSE 0

RFind(t, c) ==
    IF \E k \in 1..Len(t) : t[k] = c
    THEN CHOOSE k \in 1..Len(t) : t[k] = c /\ \A j \in (k + 1)..Len(t) : t[j] # c
    ELSE 0

\* DirectParse with the sanitizer run before the first parse
DirectParse_SanitizeFirst ==
    /\ pc = "direct"
    /\ raw' = Strip(text)
    /\ cleaned' = sanitize_json_text(raw')
    /\ log' = log \o <<"sanitize(raw)", "loads(cleaned)">>
    /\ IF loads(cleaned').ok
       THEN ret' = loads(cleaned').val /\ pc' = "done"
       ELSE ret' = ret /\ pc' = "braces"
    /\ UNCHANGED <<text, maybe, bad_text, err>>
    /\ UNCHANGED sanvars
    /\ UNCHANGED normvars
    /\ UNCHANGED appvars
    /\ UNCHANGED dnavars
    /\ UNCHANGED viewvars

\* raw = (text or "").strip(); 1) direct
DirectParse ==
    /\ pc = "direct"
    /\ raw' = Strip(text)
    /\ log' = log \o <<"loads(raw)">>
    /\ IF loads(raw').ok
       THEN ret' = loads(raw').val /\ pc' = "done"
       ELSE ret' = ret /\ pc' = "sanitize"
    /\ UNCHANGED <<text, cleaned, maybe, bad_text, err>>
    /\ UNCHANGED sanvars
    /\ UNCHANGED normvars
    /\ UNCHANGED appvars
    /\ UNCHANGED dnavars
    /\ UNCHANGED viewvars

\* 2) sanitize
SanitizeParse ==
    /\ pc = "sanitize"
    /\ cleaned' = sanitize_json_text(raw)
    /\ log' = log \o <<"sanitize(raw)", "loads(cleaned)">>
    /\ IF loads(cleaned').ok
       THEN ret' = loads(cleaned').val /\ pc' = "done"
       ELSE ret' = ret /\ pc' = "braces"
    /\ UNCHANGED <<text, raw, maybe, bad_text, err>>
    /\ UNCHANGED sanvars
    /\ UNCHANGED normvars
    /\ UNCHANGED appvars
    /\ UNCHANGED dnavars
    /\ UNCHANGED viewvars

\* BraceParse with the candidate's parse error not caught
BraceParse_Uncaught ==
    /\ pc = "braces"
    /\ LET start == Find(cleaned, "{")
           end == RFind(cleaned, "}")
       IN IF start # 0 /\ end # 0 /\ end > start
          THEN /\ maybe' = SubSeq(cleaned, start, end)
               /\ log' = log \o <<"loads(maybe)">>
               /\ bad_text' = bad_text
               /\ IF loads(maybe').ok
                  THEN ret' = loads(maybe').val /\ pc' = "done" /\ err' = err
                  ELSE ret' = ret /\ pc' = "failed" /\ err' = "JSONDecodeError"
          ELSE /\ maybe' = maybe /\ log' = log /\ ret' = ret /\ err' = err
               /\ pc' = "repair"
               /\ bad_text' = cleaned
    /\ UNCHANGED <<text, raw, cleaned>>
    /\ UNCHANGED sanvars
    /\ UNCHANGED normvars
    /\ UNCHANGED appvars
    /\ UNCHANGED dnavars
    /\ UNCHANGED viewvars

\* 3) extract {...}; what does not parse goes to the repair
BraceParse ==
    /\ pc = "braces"
    /\ LET start == Find(cleaned, "{")
           end == RFind(cleaned, "}")
       IN IF start # 0 /\ end # 0 /\ end > start
          THEN /\ maybe' = SubSeq(cleaned, start, end)
               /\ log' = log \o <<"loads(maybe)">>
               /\ IF loads(maybe').ok
                  THEN /\ ret' = loads(maybe').val /\ pc' = "done"
                       /\ bad_text' = bad_text
                  ELSE /\ ret' = ret /\ pc' = "repair"
                       /\ bad_text' = maybe'
          ELSE /\ maybe' = maybe /\ log' = log /\ ret' = ret
               /\ pc' = "repair"
               /\ bad_text' = cleaned
    /\ UNCHANGED <<text, raw, cleaned, err>>
    /\ UNCHANGED sanvars
    /\ UNCHANGED normvars
    /\ UNCHANGED appvars
    /\ UNCHANGED dnavars
    /\ UNCHANGED viewvars

\* Repair asking again when its output does not parse
Repair_Retry ==
    /\ pc = "repair"
    /\ \E reply \in RepairTexts \cup {ApiError} :
         IF reply = ApiError
         THEN /\ log' = log \o <<"responses.create">>
              /\ pc' = "failed" /\ err' = "APIError" /\ ret' = ret
         ELSE LET fixed == sanitize_json_text(Strip(reply)) IN
              /\ log' = log \o <<"responses.create", "sanitize(fixed)", "loads(fixed)">>
              /\ err' = err
              /\ IF loads(fixed).ok
                 THEN ret' = loads(fixed).val /\ pc' = "done"
                 ELSE ret' = ret /\ pc' = "repair"
    /\ UNCHANGED <<text, raw, cleaned, maybe, bad_text>>
    /\ UNCHANGED sanvars
    /\ UNCHANGED normvars
    /\ UNCHANGED appvars
    /\ UNCHANGED dnavars
    /\ UNCHANGED viewvars

\* _repair_json_with_model(bad_text): one request; its output is stripped,
\* sanitized and parsed, and any exception leaves _extract_json_obj
Repair ==
    /\ pc = "repair"
    /\ \E reply \in RepairTexts \cup {ApiError} :
         IF reply = ApiError
         THEN /\ log' = log \o <<"responses.create">>
              /\ pc' = "failed" /\ err' = "APIError" /\ ret' = ret
         ELSE LET fixed == sanitize_json_text(Strip(reply)) IN
              /\ log' = log \o <<"responses.create", "sanitize(fixed)", "loads(fixed)">>
              /\ IF loads(fixed).ok
                 THEN ret' = loads(fixed).val /\ pc' = "done" /\ err' = err
                 ELSE ret' = ret /\ pc' = "failed" /\ err' = "JSONDecodeError"
    /\ UNCHANGED <<text, raw, cleaned, maybe, bad_text>>
    /\ UNCHANGED sanvars
    /\ UNCHANGED normvars
    /\ UNCHANGED appvars
    /\ UNCHANGED dnavars
    /\ UNCHANGED viewvars

Next == DirectParse \/ SanitizeParse \/ BraceParse \/ Repair

Spec == Init /\ [][Next]_vars

\* ------------------------------------------------------------------------
\* Python values: truth, dict.get, str(), str.strip()
\* ------------------------------------------------------------------------
K_caption == <<"c", "a", "p", "t", "i", "o", "n">>
K_hashtags == <<"h", "a", "s", "h", "t", "a", "g", "s">>
K_scene_lock == <<"s", "c", "e", "n", "e", "_", "l", "o", "c", "k">>
K_pose_style == <<"p", "o", "s", "e", "_", "s", "t", "y", "l", "e">>
K_poses == <<"p", "o", "s", "e", "s">>
K_prompts == <<"p", "r", "o", "m", "p", "t", "s">>
K_pose_name == <<"p", "o", "s", "e", "_", "n", "a", "m", "e">>
K_pose_description == <<"p", "o", "s", "e", "_", "d", "e", "s", "c", "r", "i", "p", "t", "i", "o", "n">>
K_facial_expression == <<"f", "a", "c", "i", "a", "l", "_", "e", "x", "p", "r", "e", "s", "s", "i", "o", "n">>
K_full_prompt == <<"f", "u", "l", "l", "_", "p", "r", "o", "m", "p", "t">>
K_compact_master_dna == <<"c", "o", "m", "p", "a", "c", "t", "_", "m", "a", "s", "t", "e", "r", "_", "d", "n", "a">>

\* "#instagram"
Placeholder == <<"#", "i", "n", "s", "t", "a", "g", "r", "a", "m">>

\* bool(number): the digits before an exponent are not all zero
NonZero(lex) ==
    \/ lex[1] \in {"N", "I"}
    \/ Len(lex) > 1 /\ lex[2] = "I"
    \/ \E k \in 1..Len(lex) :
          /\ lex[k] \in Digits \ {"0"}
          /\ \A j \in 1..(k - 1) : lex[j] \notin {"e", "E"}

\* bool(v)
Truthy(v) ==
    CASE v.t = "null" -> FALSE
      [] v.t = "false" -> FALSE
      [] v.t = "true" -> TRUE
      [] v.t = "number" -> NonZero(v.s)
      [] v.t = "string" -> v.s # <<>>
      [] v.t \in {"array", "object"} -> v.kids # <<>>

\* a or b
Or(a, b) == IF Truthy(a) THEN a ELSE b

HasKey(d, key) ==
    \E k \in 1..Len(d.kids) : k % 2 = 1 /\ d.kids[k] = JString(key)

\* d.get(key) of a dict d: None when the key is missing
Get(d, key) ==
    IF HasKey(d, key)
    THEN d.kids[(CHOOSE k \in 1..Len(d.kids) : k % 2 = 1 /\ d.kids[k] = JString(key)) + 1]
    ELSE JNull

\* only a dict has get, only a str has strip and startswith: on anything
\* else the attribute lookup raises AttributeError
IsDict(v) == v.t = "object"
IsStr(v) == v.t = "string"
IsList(v) == v.t = "array"

RECURSIVE JoinSeqs(_, _)
JoinSeqs(parts, sep) ==
    IF parts = <<>> THEN <<>>
    ELSE IF Len(parts) = 1 THEN parts[1]
    ELSE parts[1] \o sep \o JoinSeqs(Tail(parts), sep)

\* repr(v) and str(v).  A number is written by its lexeme, which is what
\* Python prints for the plain integers of this model; a string inside a
\* container is quoted with ', which is what Python does for the strings
\* of this model (no quote, backslash or control character).
RECURSIVE PyRepr(_)
PyRepr(v) ==
    CASE v.t = "null" -> <<"N", "o", "n", "e">>
      [] v.t = "true" -> <<"T", "r", "u", "e">>
      [] v.t = "false" -> <<"F", "a", "l", "s", "e">>
      [] v.t = "number" -> v.s
      [] v.t = "string" -> <<"'">> \o v.s \o <<"'">>
      [] v.t = "array" ->
           <<"[">> \o JoinSeqs([k \in 1..Len(v.kids) |-> PyRepr(v.kids[k])],
                               <<",", SP>>) \o <<"]">>
      [] v.t = "object" ->
           <<"{">> \o JoinSeqs([k \in 1..(Len(v.kids) \div 2) |->
                                   PyRepr(v.kids[2 * k - 1]) \o <<":", SP>>
                                   \o PyRepr(v.kids[2 * k])],
                               <<",", SP>>) \o <<"}">>

PyStr(v) == IF v.t = "string" THEN v.s ELSE PyRepr(v)

Raised == [raised |-> TRUE, val |-> JNull]
Returned(v) == [raised |-> FALSE, val |-> v]

\* ------------------------------------------------------------------------
\* captions_generate_data_url, after _call_json
\* ------------------------------------------------------------------------
HashtagCount == 4

Take(q, n) == SubSeq(q, 1, IF Len(q) < n THEN Len(q) ELSE n)

NonBlank(cs) == cs # <<>>

\* variant: the list is cut to 4 entries before the blank ones are dropped
KeptTags_TruncateFirst(hashtags) ==
    SelectSeq([k \in 1..Len(Take(hashtags, HashtagCount)) |-> Strip(PyStr(hashtags[k]))],
              NonBlank)
\* [str(h).strip() for h in hashtags if str(h).strip()][:4]
KeptTags(hashtags) ==
    Take(SelectSeq([k \in 1..Len(hashtags) |-> Strip(PyStr(hashtags[k]))], NonBlank),
         HashtagCount)

\* variant: the list is not padded
Padded_None(tags) == tags
\* while len(hashtags) < 4: hashtags.append("#instagram")
Padded(tags) == tags \o [k \in 1..(HashtagCount - Len(tags)) |-> Placeholder]

\* variant: every tag gets a '#' in front
Hashed_Always(h) == <<"#">> \o h
\* h if h.startswith("#") else f"#{h}"
Hashed(h) == IF h # <<>> /\ h[1] = "#" THEN h ELSE <<"#">> \o h

captions_normalize(d) ==
    IF ~IsDict(d) THEN Raised
    ELSE LET caption == Or(Get(d, K_caption), JString(<<>>))
             given == Or(Get(d, K_hashtags), JArray(<<>>))
             hashtags == IF IsList(given) THEN given.kids ELSE <<>>
             tags == Padded(KeptTags(hashtags))
         IN IF ~IsStr(caption) THEN Raised
            ELSE Returned(JObject(<<
                   JString(K_caption), JString(Strip(caption.s)),
                   JString(K_hashtags),
                   JArray(Take([k \in 1..Len(tags) |-> JString(Hashed(tags[k]))],
                               HashtagCount))>>))

\* ------------------------------------------------------------------------
\* poser_variations_data_url, after _call_json
\* ------------------------------------------------------------------------
PoseLimit == 5

\* variant: 'prompts' is tried before 'poses'
PoseList_PromptsFirst(d) ==
    LET given == Or(Or(Get(d, K_prompts), Get(d, K_poses)), JArray(<<>>))
    IN IF IsList(given) THEN given.kids ELSE <<>>
\* data.get("poses") or data.get("prompts") or [], and [] for a non-list
PoseList(d) ==
    LET given == Or(Or(Get(d, K_poses), Get(d, K_prompts)), JArray(<<>>))
    IN IF IsList(given) THEN given.kids ELSE <<>>

\* the three fields read from one pose: (p.get(k) or "")
PoseFields(p) ==
    <<Or(Get(p, K_pose_name), JString(<<>>)),
      Or(Get(p, K_pose_description), JString(<<>>)),
      Or(Get(p, K_facial_expression), JString(<<>>))>>

\* variant: full_prompt repeats the pose description
PoseEntry_FullPrompt(p) ==
    JObject(<<JString(K_pose_name), JString(Strip(PoseFields(p)[1].s)),
              JString(K_pose_description), JString(Strip(PoseFields(p)[2].s)),
              JString(K_facial_expression), JString(Strip(PoseFields(p)[3].s)),
              JString(K_full_prompt), JString(Strip(PoseFields(p)[2].s))>>)
\* the entry appended for the mapping p, whose fields are strings
PoseEntry(p) ==
    JObject(<<JString(K_pose_name), JString(Strip(PoseFields(p)[1].s)),
              JString(K_pose_description), JString(Strip(PoseFields(p)[2].s)),
              JString(K_facial_expression), JString(Strip(PoseFields(p)[3].s)),
              JString(K_full_prompt), JString(<<>>)>>)

\* variant: the non-mappings are dropped before the list is cut to 5
KeptPoses_FilterFirst(poses) == Take(SelectSeq(poses, IsDict), PoseLimit)
\* for p in poses[:5]: if not isinstance(p, dict): continue
KeptPoses(poses) == SelectSeq(Take(poses, PoseLimit), IsDict)

poser_normalize(d, style, dna) ==
    IF ~IsDict(d) THEN Raised
    ELSE LET scene_lock == Or(Get(d, K_scene_lock), JString(<<>>))
             kept == KeptPoses(PoseList(d))
             style_v == Or(Get(d, K_pose_style), JString(style))
         IN IF ~IsStr(scene_lock) THEN Raised
            ELSE IF \E k \in 1..Len(kept) : \E f \in 1..3 : ~IsStr(PoseFields(kept[k])[f])
            THEN Raised
            ELSE IF ~IsStr(style_v) THEN Raised
            ELSE Returned(JObject(<<
                   JString(K_scene_lock), JString(Strip(scene_lock.s)),
                   JString(K_pose_style), JString(Strip(style_v.s)),
                   JString(K_prompts),
                   JArray([k \in 1..Len(kept) |-> PoseEntry(kept[k])]),
                   JString(K_compact_master_dna), JString(dna)>>))

\* ------------------------------------------------------------------------
\* Extracted values handed to the normalization steps
\* ------------------------------------------------------------------------
MaxTags == 5
MaxPoses == 6

\* a key with its value, or nothing when the key is missing
Field(key, vals) == {<<>>} \cup {<<JString(key), v>> : v \in vals}

TagItems ==
    {JString(<<"a">>), JString(<<"#", "b">>), JString(<<SP>>),
     JString(<<SP, "c", SP>>), JNumber(<<"1">>)}

CaptionData ==
    {JObject(c \o h) :
        c \in Field(K_caption,
                    {JString(<<>>), JString(<<SP, "a", SP>>), JNumber(<<"1">>),
                     JNull, JArray(<<JString(<<"a">>)>>)}),
        h \in Field(K_hashtags,
                    {JNull, JString(<<"a">>), JNumber(<<"1">>),
                     JObject(<<JString(<<"a">>), JNull>>)}
                    \cup {JArray(l) : l \in SeqsUpTo(TagItems, MaxTags)})}

PoseA ==
    JObject(<<JString(K_pose_name), JString(<<"a", SP>>),
              JString(K_pose_description), JString(<<"d">>),
              JString(K_facial_expression), JString(<<"f">>)>>)
PoseB == JObject(<<JString(K_pose_name), JString(<<"b">>)>>)
PoseC == JObject(<<JString(K_pose_name), JNumber(<<"1">>)>>)
PoseItems == {PoseA, PoseB, PoseC, JNumber(<<"1">>)}

PoseData ==
    {JObject(sl \o ps \o po \o pr) :
        sl \in Field(K_scene_lock,
                     {JString(<<SP, "s">>), JObject(<<JString(<<"a">>), JNull>>)}),
        ps \in Field(K_pose_style, {JString(<<"e">>), JNumber(<<"1">>)}),
        po \in Field(K_poses,
                     {JNull} \cup {JArray(l) : l \in SeqsUpTo(PoseItems, MaxPoses)}),
        pr \in Field(K_prompts, {JArray(<<PoseB>>)})}

\* what json.loads can also hand over: values that are no object
NonObjects == {JNull, JTrue, JNumber(<<"1">>), JString(<<"a">>), JArray(<<>>)}

\* ------------------------------------------------------------------------
\* The normalization steps on an extracted value
\* ------------------------------------------------------------------------
NormInit ==
    /\ \/ npc = "caption" /\ data \in CaptionData \cup NonObjects
       \/ npc = "poser" /\ data \in PoseData \cup NonObjects
    /\ pose_style = <<"C">>
    /\ compact_dna = <<"d">>
    /\ norm = NoOutcome
    /\ SanIdle
    /\ ExIdle
    /\ AppIdle
    /\ DnaIdle
    /\ ViewIdle

\* lines 76-87 of captions_generate_data_url
NormalizeCaption ==
    /\ npc = "caption"
    /\ norm' = captions_normalize(data)
    /\ npc' = IF norm'.raised THEN "caption_raised" ELSE "caption_done"
    /\ UNCHANGED <<data, pose_style, compact_dna>>
    /\ UNCHANGED sanvars
    /\ UNCHANGED exvars
    /\ UNCHANGED appvars
    /\ UNCHANGED dnavars
    /\ UNCHANGED viewvars

\* lines 399-423 of poser_variations_data_url
NormalizePoser ==
    /\ npc = "poser"
    /\ norm' = poser_normalize(data, pose_style, compact_dna)
    /\ npc' = IF norm'.raised THEN "poser_raised" ELSE "poser_done"
    /\ UNCHANGED <<data, pose_style, compact_dna>>
    /\ UNCHANGED sanvars
    /\ UNCHANGED exvars
    /\ UNCHANGED appvars
    /\ UNCHANGED dnavars
    /\ UNCHANGED viewvars

NormNext == NormalizeCaption \/ NormalizePoser

SpecNorm == NormInit /\ [][NormNext]_vars

\* ------------------------------------------------------------------------
\* compact_master_dna_for_poser
\* ------------------------------------------------------------------------
DnaThreshold == 700

\* the returned summary, character by character; its three characters
\* outside ASCII (a dash in each of the first two lines, the apostrophe
\* of the sixth) are written "-", "-" and "'"
CompactSummary ==
    << "L", "O", "C", "K", "E", "D", SP, "I", "D", "E", "N", "T", "I", "T",
       "Y", SP, "D", "N", "A", SP, "(", "C", "O", "M", "P", "A", "C", "T",
       ")", SP, "-", SP, "D", "O", SP, "N", "O", "T", SP, "A", "L", "T",
       "E", "R", LF, "2", "4", "-", "2", "6", "-", "y", "e", "a", "r", "-",
       "o", "l", "d", SP, "S", "o", "u", "t", "h", SP, "A", "s", "i", "a",
       "n", SP, "(", "I", "n", "d", "i", "a", "n", "-", "o", "r", "i", "g",
       "i", "n", ")", SP, "f", "e", "m", "a", "l", "e", ".", SP, "W", "a",
       "r", "m", SP, "f", "a", "i", "r", "-", "t", "o", "-", "m", "e", "d",
       "i", "u", "m", SP, "g", "o", "l", "d", "e", "n", "-", "o", "l", "i",
       "v", "e", SP, "c", "o", "m", "p", "l", "e", "x", "i", "o", "n", ";",
       SP, "r", "e", "a", "l", "i", "s", "t", "i", "c", SP, "s", "k", "i",
       "n", SP, "t", "e", "x", "t", "u", "r", "e", SP, "w", "i", "t", "h",
       SP, "v", "i", "s", "i", "b", "l", "e", SP, "p", "o", "r", "e", "s",
       ".", LF, "S", "o", "f", "t", SP, "o", "v", "a", "l", SP, "f", "a",
       "c", "e", ",", SP, "g", "e", "n", "t", "l", "y", SP, "r", "o", "u",
       "n", "d", "e", "d", SP, "c", "h", "e", "e", "k", "s", ",", SP, "s",
       "m", "o", "o", "t", "h", SP, "f", "e", "m", "i", "n", "i", "n", "e",
       SP, "j", "a", "w", "l", "i", "n", "e", ",", SP, "r", "o", "u", "n",
       "d", "e", "d", SP, "c", "h", "i", "n", ".", LF, "M", "e", "d", "i",
       "u", "m", "-", "l", "a", "r", "g", "e", SP, "a", "l", "m", "o", "n",
       "d", SP, "d", "e", "e", "p", "-", "b", "r", "o", "w", "n", SP, "e",
       "y", "e", "s", SP, "w", "i", "t", "h", SP, "v", "i", "s", "i", "b",
       "l", "e", SP, "l", "i", "d", SP, "c", "r", "e", "a", "s", "e", "s",
       ";", SP, "d", "a", "r", "k", SP, "m", "e", "d", "i", "u", "m", "-",
       "t", "h", "i", "c", "k", SP, "b", "r", "o", "w", "s", SP, "w", "i",
       "t", "h", SP, "s", "o", "f", "t", SP, "n", "a", "t", "u", "r", "a",
       "l", SP, "a", "r", "c", "h", ".", LF, "S", "t", "r", "a", "i", "g",
       "h", "t", SP, "p", "r", "o", "p", "o", "r", "t", "i", "o", "n", "a",
       "t", "e", SP, "n", "o", "s", "e", SP, "w", "i", "t", "h", SP, "s",
       "o", "f", "t", "l", "y", SP, "r", "o", "u", "n", "d", "e", "d", SP,
       "r", "e", "f", "i", "n", "e", "d", SP, "t", "i", "p", ".", LF, "N",
       "a", "t", "u", "r", "a", "l", "l", "y", SP, "f", "u", "l", "l", SP,
       "b", "a", "l", "a", "n", "c", "e", "d", SP, "l", "i", "p", "s", SP,
       "w", "i", "t", "h", SP, "d", "e", "f", "i", "n", "e", "d", SP, "c",
       "u", "p", "i", "d", "'", "s", SP, "b", "o", "w", ";", SP, "m", "u",
       "t", "e", "d", SP, "r", "o", "s", "y", "-", "p", "i", "n", "k", SP,
       "t", "o", "n", "e", ".", LF, "D", "a", "r", "k", SP, "b", "r", "o",
       "w", "n", SP, "t", "o", SP, "d", "e", "e", "p", SP, "e", "s", "p",
       "r", "e", "s", "s", "o", SP, "h", "a", "i", "r", ",", SP, "s", "m",
       "o", "o", "t", "h", SP, "t", "o", SP, "s", "o", "f", "t", "l", "y",
       SP, "w", "a", "v", "y", ",", SP, "c", "e", "n", "t", "e", "r", "/",
       "s", "l", "i", "g", "h", "t", "l", "y", SP, "o", "f", "f", "-", "c",
       "e", "n", "t", "e", "r", SP, "p", "a", "r", "t", SP, "w", "i", "t",
       "h", SP, "n", "a", "t", "u", "r", "a", "l", SP, "f", "l", "y", "a",
       "w", "a", "y", "s", ".", LF, "B", "o", "d", "y", SP, "s", "t", "r",
       "u", "c", "t", "u", "r", "e", ":", SP, "H", "o", "u", "r", "g", "l",
       "a", "s", "s", SP, "(", "3", "6", "-", "2", "8", "-", "3", "6", ")",
       ".", SP, "I", "d", "e", "n", "t", "i", "t", "y", SP, "m", "u", "s",
       "t", SP, "r", "e", "m", "a", "i", "n", SP, "i", "d", "e", "n", "t",
       "i", "c", "a", "l", SP, "(", "n", "o", SP, "f", "a", "c", "e", SP,
       "d", "r", "i", "f", "t", "/", "m", "o", "r", "p", "h", "i", "n", "g",
       "/", "b", "e", "a", "u", "t", "i", "f", "i", "c", "a", "t", "i", "o",
       "n", ")", "." >>

\* variant: a descriptor of exactly the threshold length is replaced too
compact_master_dna_for_poser_Strict(dna) ==
    IF Len(Strip(dna)) < DnaThreshold THEN Strip(dna) ELSE CompactSummary
\* s = (master_dna or "").strip(); if len(s) <= 700: return s
compact_master_dna_for_poser(dna) ==
    IF Len(Strip(dna)) <= DnaThreshold THEN Strip(dna) ELSE CompactSummary

\* descriptors: short ones, blank ones among them, and ones whose length
\* is around the threshold and around the length of the summary, with
\* blanks at either end
MaxShort == 2
MaxOver == 32
Fill(c, n) == [k \in 1..n |-> c]
Descriptors ==
    SeqsUpTo({"a", SP, LF}, MaxShort)
    \cup {pre \o Fill(c, n) \o post :
            pre \in {<<>>, <<SP>>}, post \in {<<>>, <<SP, LF>>},
            c \in {"a", "b"},
            n \in (DnaThreshold - MaxOver)..(DnaThreshold + MaxOver)}

DnaInit ==
    /\ master_dna \in Descriptors
    /\ dpc = "call"
    /\ SanIdle
    /\ ExIdle
    /\ NormIdle
    /\ AppIdle
    /\ ViewIdle

\* compact_dna = self.compact_master_dna_for_poser(master_dna)
Compact ==
    /\ dpc = "call"
    /\ compact_dna' = compact_master_dna_for_poser(master_dna)
    /\ dpc' = "returned"
    /\ UNCHANGED <<master_dna, data, pose_style, norm, npc>>
    /\ UNCHANGED sanvars
    /\ UNCHANGED exvars
    /\ UNCHANGED appvars
    /\ UNCHANGED viewvars

DnaNext == Compact

SpecDna == DnaInit /\ [][DnaNext]_vars

\* ------------------------------------------------------------------------
\* _call_json and the two handlers of the page that store its result
\* ------------------------------------------------------------------------
MaxClicks == 3

Quoted(cs) == <<QUOTE>> \o cs \o <<QUOTE>>

\* output_text of a request: objects of either feature, a value that is no
\* object, and text that does not parse
ResponseTexts ==
    { <<"{">> \o Quoted(K_caption) \o <<":">> \o Quoted(<<"a">>) \o <<",">>
        \o Quoted(K_hashtags) \o <<":", "[">> \o Quoted(<<"b">>) \o <<"]", "}">>,
      <<"{">> \o Quoted(K_caption) \o <<":">> \o Quoted(<<"b">>) \o <<"}">>,
      <<"{">> \o Quoted(K_scene_lock) \o <<":">> \o Quoted(<<"s">>) \o <<",">>
        \o Quoted(K_poses) \o <<":", "[", "{">> \o Quoted(K_pose_name) \o <<":">>
        \o Quoted(<<"a">>) \o <<"}", "]", "}">>,
      <<"{">> \o Quoted(K_scene_lock) \o <<":">> \o Quoted(<<"t">>) \o <<"}">>,
      <<"[", "1", "]">>,
      <<"{", "a", "}">>,
      <<"{", QUOTE, "a">> }

\* exceptions of responses.create: the request did not reach the model or
\* was refused (network, authentication, rate limit), and the API's
\* rejection of the request as malformed
TransportErrors == {"APIConnectionError", "AuthenticationError", "RateLimitError"}
Rejection == "BadRequestError"
RequestFailures == {<<e>> : e \in TransportErrors \cup {Rejection}}

AppInit ==
    /\ feature = "none" /\ cpc = "idle" /\ sdk_text \in BOOLEAN
    /\ calls = <<>> /\ cerr = "" /\ clicks = 0
    /\ poser_data = JNull /\ caption_out = JNull
    /\ master_dna = <<"d", SP>> /\ dpc = "idle"
    /\ SanIdle
    /\ ExIdle
    /\ NormIdle
    /\ ViewIdle

\* a button is pressed: the script runs the handler, which calls the
\* service with fresh locals
Press ==
    /\ cpc \in {"idle", "done", "failed"}
    /\ clicks < MaxClicks
    /\ clicks' = clicks + 1
    /\ cpc' = "request1" /\ calls' = <<>> /\ cerr' = ""
    /\ text' = <<>> /\ raw' = <<>> /\ cleaned' = <<>> /\ maybe' = <<>>
    /\ bad_text' = <<>> /\ pc' = "idle" /\ ret' = JNull /\ err' = "" /\ log' = <<>>
    /\ data' = JNull /\ norm' = NoOutcome /\ npc' = "idle"
    /\ UNCHANGED <<sdk_text, poser_data, caption_out>>
    /\ UNCHANGED sanvars
    /\ UNCHANGED dnavars
    /\ UNCHANGED viewvars

\* "Generate 5 Pose Prompts": the chosen pose style and the compact
\* descriptor go to the service
PoserClick ==
    /\ feature' = "poser"
    /\ pose_style' = <<"C">>
    /\ compact_dna' = compact_master_dna_for_poser(master_dna)
    /\ Press

\* "Generate Caption"
CaptionClick ==
    /\ feature' = "caption"
    /\ pose_style' = <<>> /\ compact_dna' = <<>>
    /\ Press

\* the answer to a request: its text goes to _extract_json_obj, its
\* exception leaves _call_json
Answered(reply, request) ==
    IF reply \in RequestFailures
    THEN /\ calls' = calls \o <<request, reply[1]>>
         /\ cpc' = "failed" /\ cerr' = reply[1]
         /\ UNCHANGED <<text, pc>>
    ELSE /\ calls' = calls \o <<request>>
         /\ cpc' = "extract" /\ cerr' = cerr
         /\ text' = reply /\ pc' = "direct"

\* Request1 with every exception of the first request caught
Request1_CatchAll ==
    /\ cpc = "request1"
    /\ IF ~sdk_text
       THEN /\ calls' = calls \o <<"create(json_object)", "TypeError">>
            /\ cpc' = "request2"
            /\ UNCHANGED <<cerr, text, pc>>
       ELSE \E reply \in ResponseTexts \cup RequestFailures :
              IF reply \in RequestFailures
              THEN /\ calls' = calls \o <<"create(json_object)", reply[1]>>
                   /\ cpc' = "request2"
                   /\ UNCHANGED <<cerr, text, pc>>
              ELSE Answered(reply, "create(json_object)")
    /\ UNCHANGED <<feature, sdk_text, poser_data, caption_out, clicks>>
    /\ UNCHANGED <<raw, cleaned, maybe, bad_text, ret, err, log>>
    /\ UNCHANGED sanvars
    /\ UNCHANGED dnavars
    /\ UNCHANGED viewvars
    /\ UNCHANGED normvars

\* the request with text={"format": {"type": "json_object"}}: an SDK whose
\* create does not take the argument raises TypeError, which is the one
\* exception caught
Request1 ==
    /\ cpc = "request1"
    /\ IF ~sdk_text
       THEN /\ calls' = calls \o <<"create(json_object)", "TypeError">>
            /\ cpc' = "request2"
            /\ UNCHANGED <<cerr, text, pc>>
       ELSE \E reply \in ResponseTexts \cup RequestFailures :
              Answered(reply, "create(json_object)")
    /\ UNCHANGED <<feature, sdk_text, poser_data, caption_out, clicks>>
    /\ UNCHANGED <<raw, cleaned, maybe, bad_text, ret, err, log>>
    /\ UNCHANGED sanvars
    /\ UNCHANGED dnavars
    /\ UNCHANGED viewvars
    /\ UNCHANGED normvars

\* except TypeError: the request without the text argument
Request2 ==
    /\ cpc = "request2"
    /\ \E reply \in ResponseTexts \cup RequestFailures :
         Answered(reply, "create(plain)")
    /\ UNCHANGED <<feature, sdk_text, poser_data, caption_out, clicks>>
    /\ UNCHANGED <<raw, cleaned, maybe, bad_text, ret, err, log>>
    /\ UNCHANGED sanvars
    /\ UNCHANGED dnavars
    /\ UNCHANGED viewvars
    /\ UNCHANGED normvars

\* Raise with the stored results dropped
Raise_ClearStored ==
    /\ cpc = "extract" /\ pc = "failed"
    /\ cpc' = "failed" /\ cerr' = err
    /\ poser_data' = JNull /\ caption_out' = JNull
    /\ UNCHANGED <<feature, sdk_text, calls, clicks>>
    /\ UNCHANGED sanvars
    /\ UNCHANGED dnavars
    /\ UNCHANGED viewvars
    /\ UNCHANGED exvars
    /\ UNCHANGED normvars

\* the exception of _extract_json_obj is no TypeError: it leaves _call_json,
\* the service method and the handler
Raise ==
    /\ cpc = "extract" /\ pc = "failed"
    /\ cpc' = "failed" /\ cerr' = err
    /\ UNCHANGED <<feature, sdk_text, calls, poser_data, caption_out, clicks>>
    /\ UNCHANGED sanvars
    /\ UNCHANGED dnavars
    /\ UNCHANGED viewvars
    /\ UNCHANGED exvars
    /\ UNCHANGED normvars

\* the extracted value is normalized and the handler stores what the
\* service returns (app.py lines 390-391)
PoserStore ==
    /\ cpc = "extract" /\ pc = "done" /\ feature = "poser"
    /\ data' = ret
    /\ norm' = poser_normalize(ret, pose_style, compact_dna)
    /\ IF norm'.raised
       THEN /\ npc' = "poser_raised" /\ cpc' = "failed" /\ cerr' = "AttributeError"
            /\ poser_data' = poser_data
       ELSE /\ npc' = "poser_done" /\ cpc' = "done" /\ cerr' = cerr
            /\ poser_data' = norm'.val
    /\ UNCHANGED <<feature, sdk_text, calls, caption_out, clicks, pose_style, compact_dna>>
    /\ UNCHANGED sanvars
    /\ UNCHANGED dnavars
    /\ UNCHANGED viewvars
    /\ UNCHANGED exvars

\* (app.py lines 466-468)
CaptionStore ==
    /\ cpc = "extract" /\ pc = "done" /\ feature = "caption"
    /\ data' = ret
    /\ norm' = captions_normalize(ret)
    /\ IF norm'.raised
       THEN /\ npc' = "caption_raised" /\ cpc' = "failed" /\ cerr' = "AttributeError"
            /\ caption_out' = caption_out
       ELSE /\ npc' = "caption_done" /\ cpc' = "done" /\ cerr' = cerr
            /\ caption_out' = norm'.val
    /\ UNCHANGED <<feature, sdk_text, calls, poser_data, clicks, pose_style, compact_dna>>
    /\ UNCHANGED sanvars
    /\ UNCHANGED dnavars
    /\ UNCHANGED viewvars
    /\ UNCHANGED exvars

AppNext ==
    \/ PoserClick \/ CaptionClick
    \/ Request1 \/ Request2
    \/ DirectParse \/ SanitizeParse \/ BraceParse \/ Repair
    \/ Raise \/ PoserStore \/ CaptionStore

SpecApp == AppInit /\ [][AppNext]_vars

\* ------------------------------------------------------------------------
\* The Poser view: the options and the entry picked (app.py lines 394-407)
\* ------------------------------------------------------------------------
DigitChars == <<"0", "1", "2", "3", "4", "5", "6", "7", "8", "9">>

\* f"{n}" of a natural number
RECURSIVE Dec(_)
Dec(n) ==
    IF n < 10 THEN <<DigitChars[n + 1]>>
    ELSE Dec(n \div 10) \o <<DigitChars[(n % 10) + 1]>>

\* int(cs) of a text: blanks around the digits are dropped; a text that is
\* not a run of digits raises ValueError
RECURSIVE DigitsValue(_)
DigitsValue(cs) ==
    IF cs = <<>> THEN 0
    ELSE 10 * DigitsValue(SubSeq(cs, 1, Len(cs) - 1))
         + (CHOOSE d \in 0..9 : DigitChars[d + 1] = cs[Len(cs)])

PyInt(cs) ==
    LET ds == Strip(cs)
    IN IF ds # <<>> /\ \A k \in 1..Len(ds) : ds[k] \in Digits
       THEN [ok |-> TRUE, val |-> DigitsValue(ds)]
       ELSE [ok |-> FALSE, val |-> 0]

\* cs.split(".")[0]
BeforeDot(cs) == IF Find(cs, ".") = 0 THEN cs ELSE SubSeq(cs, 1, Find(cs, ".") - 1)

\* d.get(key, default)
GetOr(d, key, default) == IF HasKey(d, key) THEN Get(d, key) ELSE default

\* f"{i+1}. {p.get('pose_name','Pose')}"
PoseOption(k, p) ==
    Dec(k) \o <<".", SP>> \o PyStr(GetOr(p, K_pose_name, JString(<<"P", "o", "s", "e">>)))

\* what the pose handler can have stored
StoredPoses ==
    {poser_normalize(d, <<"C">>, <<"d">>).val :
        d \in {x \in PoseData : ~poser_normalize(x, <<"C">>, <<"d">>).raised}}

ViewInit ==
    /\ poser_data \in StoredPoses \cup {JNull}
    /\ vpc = "view" /\ choice = JNull /\ idx = 0 /\ picked = JNull
    /\ feature = "none" /\ cpc = "idle" /\ sdk_text = TRUE
    /\ calls = <<>> /\ cerr = "" /\ clicks = 0 /\ caption_out = JNull
    /\ SanIdle
    /\ ExIdle
    /\ NormIdle
    /\ DnaIdle

\* if data and isinstance(data, dict) is false: nothing is shown
Hidden ==
    /\ vpc = "view"
    /\ ~(Truthy(poser_data) /\ IsDict(poser_data))
    /\ vpc' = "hidden"
    /\ UNCHANGED <<choice, idx, picked>>
    /\ UNCHANGED sanvars
    /\ UNCHANGED exvars
    /\ UNCHANGED normvars
    /\ UNCHANGED appvars
    /\ UNCHANGED dnavars

\* the options are built, st.radio returns the option chosen, or None when
\* there is no option, and the entry is picked by the number in front of
\* the option
Select ==
    /\ vpc = "view"
    /\ Truthy(poser_data) /\ IsDict(poser_data)
    /\ LET prompts == GetOr(poser_data, K_prompts, JArray(<<>>)).kids
           names == [k \in 1..Len(prompts) |-> PoseOption(k, prompts[k])]
       IN IF \E k \in 1..Len(prompts) : ~IsDict(prompts[k])
          THEN vpc' = "raised" /\ UNCHANGED <<choice, idx, picked>>
          ELSE IF names = <<>>
          THEN choice' = JNull /\ vpc' = "raised" /\ UNCHANGED <<idx, picked>>
          ELSE \E k \in 1..Len(names) :
                 /\ choice' = JString(names[k])
                 /\ LET n == PyInt(BeforeDot(names[k]))
                    IN IF ~n.ok
                       THEN vpc' = "raised" /\ UNCHANGED <<idx, picked>>
                       ELSE /\ idx' = n.val - 1
                            /\ picked' = IF 0 <= n.val - 1 /\ n.val - 1 < Len(prompts)
                                         THEN prompts[n.val]
                                         ELSE JObject(<<>>)
                            /\ vpc' = "picked"
    /\ UNCHANGED sanvars
    /\ UNCHANGED exvars
    /\ UNCHANGED normvars
    /\ UNCHANGED appvars
    /\ UNCHANGED dnavars

ViewNext == Hidden \/ Select

SpecView == ViewInit /\ [][ViewNext]_vars

\* ------------------------------------------------------------------------
\* Properties of _sanitize_json_text (SpecSan)
\* ------------------------------------------------------------------------
Range(f) == {f[k] : k \in DOMAIN f}

RawControls == {LF, CR, TAB}

NoRawControl(t) == \A k \in 1..Len(t) : t[k] \notin RawControls

\* the keys of a parsed object
KeysOf(v) == {v.kids[k] : k \in {j \in 1..Len(v.kids) : j % 2 = 1}}

\* t is a JSON object but for raw newlines inside string values: it parses
\* once control characters are allowed in strings, not before, its only
\* control characters are newlines and no key holds one
NewlineOnlyDefect(t) ==
    /\ \A k \in 1..Len(t) : t[k] \in ControlChars => t[k] = LF
    /\ ~loads(t).ok
    /\ decode(t, FALSE).ok
    /\ decode(t, FALSE).val.t = "object"
    /\ \A key \in KeysOf(decode(t, FALSE).val) : LF \notin Range(key.s)

\* C2: for a JSON object valid except for raw newlines inside a string
\* value, the sanitized text parses and yields the object with the newline
\* at the same place in the value, keys and other values unchanged.
C2_NewlineRecovered ==
    (spc = "returned" /\ NewlineOnlyDefect(s)) =>
        /\ loads(out).ok
        /\ loads(out).val = decode(s, FALSE).val

\* b is the content of a string value whose quotes are all internal: no
\* backslash, no control character, at least one quote, and the next
\* non-space character after each quote (the closing quote at the latest)
\* is no delimiter
InternalQuotes(b) ==
    /\ \A k \in 1..Len(b) : b[k] \notin {BSL} \cup ControlChars
    /\ QUOTE \in Range(b)
    /\ \A k \in 1..Len(b) :
         b[k] = QUOTE => next_nonspace(b \o <<QUOTE>>, k + 1) \notin Delimiters

\* C3: in a JSON-like text whose string value holds an unescaped quote not
\* followed by a delimiter, the quote is rewritten to \" and the sanitized
\* text parses, the string value keeping the quote and the characters
\* around it.
C3_InternalQuoteRecovered ==
    spc = "returned" =>
        \A b \in Bodies :
            InternalQuotes(b) =>
                /\ s \in {ObjectText(c, StringText(b)) : c \in Colons} =>
                     /\ loads(out).ok
                     /\ loads(out).val = JObject(<<JString(<<"a">>), JString(b)>>)
                /\ s = <<"[">> \o StringText(b) \o <<"]">> =>
                     /\ loads(out).ok
                     /\ loads(out).val = JArray(<<JString(b)>>)

\* what one loop iteration appended to out
Added == SubSeq(out', Len(out) + 1, Len(out'))

\* C8: no raw newline, carriage return or tab is written at a position the
\* scanner treats as inside a string literal, the character after a
\* backslash included.
C8_NoRawControlInString ==
    [][(spc = "scan" /\ i <= Len(s) /\ in_str) =>
          \A k \in 1..Len(Added) : Added[k] \notin RawControls]_vars

\* C9: for an input with no raw newline, carriage return or tab, a second
\* pass over the output of the first changes nothing.
C9_Idempotent ==
    (spc = "returned" /\ NoRawControl(s)) => sanitize_json_text(out) = out

\* the first pass escaped a quote of a text free of raw control characters
C9_Witness ==
    /\ spc = "returned" /\ NoRawControl(s)
    /\ Len(out) > Len(s)
    /\ \E k \in 1..(Len(out) - 1) : out[k] = BSL /\ out[k + 1] = QUOTE

\* what the scanner may write for the character ch
Renderings(ch) ==
    {<<ch>>}
    \cup (IF ch = QUOTE THEN {<<BSL, QUOTE>>} ELSE {})
    \cup (IF ch = LF THEN {<<BSL, "n">>} ELSE {})
    \cup (IF ch = CR THEN {<<BSL, "r">>} ELSE {})
    \cup (IF ch = TAB THEN {<<BSL, "t">>} ELSE {})

\* C10: the output is never shorter than the input read so far and grows,
\* per input character, by that character, by \" for a quote or by the
\* two-character escape of a control character; outside a literal and
\* directly after a backslash the character itself is written; the index
\* never leaves the text.
C10_OnlyInsertsEscapes ==
    /\ [](spc \in {"scan", "returned"} =>
            /\ i >= 1 /\ i <= Len(s) + 1
            /\ Len(out) >= i - 1
            /\ (spc = "returned" => Len(out) >= Len(s)))
    /\ [][(spc = "scan" /\ i <= Len(s)) =>
            /\ i' = i + 1
            /\ SubSeq(out', 1, Len(out)) = out
            /\ Added \in Renderings(s[i])
            /\ (~in_str \/ esc) => Added = <<s[i]>>]_vars

\* a scan that copied an escaped character, escaped a quote and expanded a
\* newline
C10_Witness ==
    /\ spc = "returned"
    /\ Len(out) >= Len(s) + 2
    /\ \E k \in 1..(Len(s) - 1) : s[k] = BSL /\ s[k + 1] = QUOTE
    /\ \E k \in 1..(Len(out) - 1) : out[k] = BSL /\ out[k + 1] = "n"

\* ------------------------------------------------------------------------
\* Properties of _extract_json_obj (Spec)
\* ------------------------------------------------------------------------
Count(l, e) == Cardinality({k \in 1..Len(l) : l[k] = e})

Last(l) == l[Len(l)]

\* C1: whatever strategy returns, the returned value is a JSON object.
C1_ReturnsObject == pc = "done" => ret.t = "object"

\* C4: when the stripped text is valid JSON, the value of the direct parse
\* is returned and neither the sanitizer, nor the brace extraction, nor the
\* repair request runs.
C4_ValidJsonDirectOnly ==
    loads(Strip(text)).ok =>
        /\ pc \in {"direct", "done"}
        /\ log \in {<<>>, <<"loads(raw)">>}
        /\ pc = "done" => ret = loads(Strip(text)).val

\* valid JSON with whitespace around it, returned by the direct parse
C4_Witness ==
    /\ pc = "done" /\ log = <<"loads(raw)">>
    /\ Strip(text) # text
    /\ ret = loads(Strip(text)).val

IsProse(p) == p # <<>> /\ \A k \in 1..Len(p) : p[k] \in {"a", SP}

\* the places <<a, b>> where t is prose, a JSON object with a key, prose
ProseObjectSplits(t) ==
    {ab \in (2..Len(t)) \X (1..(Len(t) - 1)) :
        /\ ab[1] < ab[2]
        /\ t[ab[1]] = "{" /\ t[ab[2]] = "}"
        /\ IsProse(SubSeq(t, 1, ab[1] - 1))
        /\ IsProse(SubSeq(t, ab[2] + 1, Len(t)))
        /\ loads(SubSeq(t, ab[1], ab[2])).ok
        /\ loads(SubSeq(t, ab[1], ab[2])).val.kids # <<>>}

\* C5: for prose, a valid JSON object with a key, then commentary, the
\* object is returned by the first-brace-to-last-brace strategy and no
\* repair request is issued.
C5_ProseObjectByBraces ==
    \A ab \in ProseObjectSplits(text) :
        /\ pc \notin {"repair", "failed"}
        /\ "responses.create" \notin Range(log)
        /\ pc = "done" =>
             /\ ret = loads(SubSeq(text, ab[1], ab[2])).val
             /\ Last(log) = "loads(maybe)"

\* C6: a syntax error of the direct, sanitized or candidate parse never
\* leaves _extract_json_obj; it fails only with the repair request's error
\* or with the parse error of the repair output.
C6_OnlyRepairFails ==
    /\ "responses.create" \notin Range(log) => pc # "failed" /\ err = ""
    /\ pc = "failed" =>
         \/ err = "APIError" /\ Last(log) = "responses.create"
         \/ err = "JSONDecodeError" /\ Last(log) = "loads(fixed)"
    /\ pc # "failed" => err = ""

\* the three local parses failed, then the repair output did not parse
C6_Witness ==
    /\ pc = "failed" /\ err = "JSONDecodeError"
    /\ "loads(maybe)" \in Range(log)

LocalAttempts == <<"loads(raw)", "sanitize(raw)", "loads(cleaned)">>

HasCandidate ==
    /\ Find(cleaned, "{") # 0
    /\ RFind(cleaned, "}") > Find(cleaned, "{")

\* C7: the repair request is issued at most once, after the direct, the
\* sanitized and (when there is a candidate) the candidate parse failed in
\* that order; a repair output that does not parse ends the call.
C7_RepairOnceLast ==
    /\ Count(log, "responses.create") <= 1
    /\ "responses.create" \in Range(log) =>
         LET before == IF HasCandidate
                       THEN LocalAttempts \o <<"loads(maybe)">>
                       ELSE LocalAttempts
         IN /\ Len(log) > Len(before)
            /\ SubSeq(log, 1, Len(before)) = before
            /\ log[Len(before) + 1] = "responses.create"
            /\ ~loads(raw).ok
            /\ ~loads(cleaned).ok
            /\ HasCandidate => maybe = bad_text /\ ~loads(maybe).ok
            /\ SubSeq(log, Len(before) + 2, Len(log))
                 \in {<<>>, <<"sanitize(fixed)", "loads(fixed)">>}
            /\ pc \in {"done", "failed"}

\* no candidate, one repair request, its output does not parse
C7_Witness ==
    /\ pc = "failed" /\ err = "JSONDecodeError"
    /\ ~HasCandidate
    /\ log = LocalAttempts \o <<"responses.create", "sanitize(fixed)", "loads(fixed)">>

\* ------------------------------------------------------------------------
\* Properties of the normalization steps (SpecNorm)
\* ------------------------------------------------------------------------
\* the j-th smallest member of a set of positions
Nth(S, j) == CHOOSE k \in S : Cardinality({m \in S : m <= k}) = j

HasTagList == IsDict(data) /\ IsList(Get(data, K_hashtags))
GivenTags == IF HasTagList THEN Get(data, K_hashtags).kids ELSE <<>>
ResultTags == Get(norm.val, K_hashtags).kids
TagText(e) == Strip(PyStr(e))
WithHash(cs) == IF cs # <<>> /\ cs[1] = "#" THEN cs ELSE <<"#">> \o cs
NonBlankAt(l) == {k \in 1..Len(l) : TagText(l[k]) # <<>>}

\* the first non-blank entries, at most 4, then the placeholder up to 4
ExpectedTags(l) ==
    [j \in 1..4 |-> IF j <= Cardinality(NonBlankAt(l))
                    THEN WithHash(TagText(l[Nth(NonBlankAt(l), j)]))
                    ELSE <<"#", "i", "n", "s", "t", "a", "g", "r", "a", "m">>]

\* C11: neither normalization step raises, whatever the extracted value.
C11_NeverRaises == npc \notin {"caption_raised", "poser_raised"}

\* C12: a returned caption result has a hashtags list of exactly 4 strings,
\* each beginning with '#'.
C12_FourHashtags ==
    npc = "caption_done" =>
        /\ IsList(Get(norm.val, K_hashtags))
        /\ Len(ResultTags) = 4
        /\ \A k \in 1..Len(ResultTags) :
              /\ IsStr(ResultTags[k])
              /\ ResultTags[k].s # <<>>
              /\ ResultTags[k].s[1] = "#"

\* a list longer than 4 with a blank and a non-string item
C12_Witness ==
    /\ npc = "caption_done"
    /\ Len(GivenTags) > 4
    /\ \E k \in 1..Len(GivenTags) : TagText(GivenTags[k]) = <<>>
    /\ \E k \in 1..Len(GivenTags) : ~IsStr(GivenTags[k])

\* C13 as stated: of a list of more than 4 entries the result holds the
\* first 4 entries in order, each with its '#'.
C13_FirstFourSurvive ==
    npc = "caption_done" /\ Len(GivenTags) > 4 =>
        \A k \in 1..4 : ResultTags[k].s = WithHash(TagText(GivenTags[k]))

\* C13: of a list of more than 4 entries the result holds the first 4
\* non-blank entries in order, each stripped and with its '#', and the
\* placeholder where fewer than 4 entries are non-blank.
C13_FirstFourNonBlank ==
    npc = "caption_done" /\ Len(GivenTags) > 4 =>
        [k \in 1..Len(ResultTags) |-> ResultTags[k].s] = ExpectedTags(GivenTags)

\* five entries, the second blank: the fifth is in the result
C13_Witness ==
    /\ npc = "caption_done"
    /\ Len(GivenTags) = 5
    /\ NonBlankAt(GivenTags) = {1, 3, 4, 5}
    /\ ResultTags[4].s = WithHash(TagText(GivenTags[5]))

\* C14 as stated: of a list of k < 4 entries the result holds the k entries
\* in order, each with its '#', then 4-k placeholders.
C14_AllThenPlaceholder ==
    npc = "caption_done" /\ HasTagList /\ Len(GivenTags) < 4 =>
        /\ Len(ResultTags) = 4
        /\ \A k \in 1..4 :
              ResultTags[k].s = IF k <= Len(GivenTags)
                                THEN WithHash(TagText(GivenTags[k]))
                                ELSE Placeholder

\* C14: of a list of k < 4 entries the result holds the non-blank ones in
\* order, each stripped and with its '#', then placeholders up to 4.
C14_NonBlankThenPlaceholder ==
    npc = "caption_done" /\ HasTagList /\ Len(GivenTags) < 4 =>
        [k \in 1..Len(ResultTags) |-> ResultTags[k].s] = ExpectedTags(GivenTags)

\* three entries, the first blank: two tags and two placeholders
C14_Witness ==
    /\ npc = "caption_done"
    /\ Len(GivenTags) = 3
    /\ NonBlankAt(GivenTags) = {2, 3}
    /\ ResultTags[1].s = WithHash(TagText(GivenTags[2]))
    /\ ResultTags[3].s = Placeholder
    /\ ResultTags[4].s = Placeholder

\* the list the pose step reads
GivenPoses ==
    LET v == IF Truthy(Get(data, K_poses)) THEN Get(data, K_poses)
             ELSE Get(data, K_prompts)
    IN IF IsList(v) THEN v.kids ELSE <<>>
ResultPrompts == Get(norm.val, K_prompts).kids
MappingAt(l) == {k \in 1..Len(l) : k <= 5 /\ l[k].t = "object"}
NameOf(p) == Strip(Or(Get(p, K_pose_name), JString(<<>>)).s)
\* the names of the mappings among the first 5 items of a value
NamesFrom(v) ==
    LET l == IF IsList(v) THEN v.kids ELSE <<>>
    IN [j \in 1..Cardinality(MappingAt(l)) |-> NameOf(l[Nth(MappingAt(l), j)])]
ResultNames == [j \in 1..Len(ResultPrompts) |-> Get(ResultPrompts[j], K_pose_name).s]

\* C15: prompts has at most 5 entries, one for each mapping among the first
\* 5 items of the list and in their order, nothing for any other item and
\* no padding; three mappings give three entries.
C15_AtMostFiveMappings ==
    npc = "poser_done" =>
        /\ Len(ResultPrompts) <= 5
        /\ Len(ResultPrompts) = Cardinality(MappingAt(GivenPoses))
        /\ \A j \in 1..Len(ResultPrompts) :
              Get(ResultPrompts[j], K_pose_name).s
                  = NameOf(GivenPoses[Nth(MappingAt(GivenPoses), j)])
        /\ (Len(GivenPoses) = 3 /\ MappingAt(GivenPoses) = {1, 2, 3})
              => Len(ResultPrompts) = 3

\* six items, the second no mapping, the sixth a mapping: four entries
C15_Witness ==
    /\ npc = "poser_done"
    /\ Len(GivenPoses) = 6
    /\ MappingAt(GivenPoses) = {1, 3, 4, 5}
    /\ GivenPoses[6].t = "object"
    /\ Len(ResultPrompts) = 4

\* C16: a returned pose result has the strings scene_lock and pose_style
\* and the list prompts; each entry has the strings pose_name,
\* pose_description and facial_expression, empty where the model left
\* them out, and an empty full_prompt.
C16_ResultShape ==
    npc = "poser_done" =>
        /\ HasKey(norm.val, K_scene_lock) /\ IsStr(Get(norm.val, K_scene_lock))
        /\ HasKey(norm.val, K_pose_style) /\ IsStr(Get(norm.val, K_pose_style))
        /\ HasKey(norm.val, K_prompts) /\ IsList(Get(norm.val, K_prompts))
        /\ \A j \in 1..Len(ResultPrompts) :
              /\ \A key \in {K_pose_name, K_pose_description, K_facial_expression} :
                    /\ HasKey(ResultPrompts[j], key)
                    /\ IsStr(Get(ResultPrompts[j], key))
                    /\ ~HasKey(GivenPoses[Nth(MappingAt(GivenPoses), j)], key)
                          => Get(ResultPrompts[j], key).s = <<>>
              /\ HasKey(ResultPrompts[j], K_full_prompt)
              /\ Get(ResultPrompts[j], K_full_prompt) = JString(<<>>)

\* no scene_lock, a pose with a description and a pose without one
C16_Witness ==
    /\ npc = "poser_done"
    /\ ~HasKey(data, K_scene_lock)
    /\ Get(norm.val, K_scene_lock) = JString(<<>>)
    /\ Len(ResultPrompts) >= 2
    /\ Get(ResultPrompts[1], K_pose_description).s # <<>>
    /\ Get(ResultPrompts[2], K_pose_description).s = <<>>

\* C17 as stated: when the key 'poses' is present the entries come from its
\* value, and from 'prompts' only when 'poses' is absent.
C17_PosesWheneverPresent ==
    npc = "poser_done" =>
        ResultNames = IF HasKey(data, K_poses)
                      THEN NamesFrom(Get(data, K_poses))
                      ELSE NamesFrom(Get(data, K_prompts))

\* C17: the entries come from 'poses' when its value is truthy, and from
\* 'prompts' when 'poses' is absent or holds a falsy value (null, an empty
\* list).
C17_PosesWhenTruthy ==
    npc = "poser_done" =>
        /\ Truthy(Get(data, K_poses)) => ResultNames = NamesFrom(Get(data, K_poses))
        /\ ~Truthy(Get(data, K_poses)) => ResultNames = NamesFrom(Get(data, K_prompts))

\* 'poses' is an empty list and the entry comes from 'prompts'
C17_Witness ==
    /\ npc = "poser_done"
    /\ HasKey(data, K_poses) /\ Get(data, K_poses) = JArray(<<>>)
    /\ HasKey(data, K_prompts)
    /\ Len(ResultPrompts) = 1

\* ------------------------------------------------------------------------
\* Properties of _call_json and of the stored results (SpecApp)
\* ------------------------------------------------------------------------
PrimaryRequests ==
    Cardinality({k \in 1..Len(calls) : calls[k] \in {"create(json_object)", "create(plain)"}})
ApiRequests == PrimaryRequests + Count(log, "responses.create")

\* C18: a request the API rejects as malformed is issued once more without
\* the constraint, a second rejection ends the call, and no call sends
\* more than two primary requests.
C18_RejectionRetriedOnce ==
    /\ PrimaryRequests <= 2
    /\ (cpc \in {"done", "failed"} /\ Len(calls) >= 2
           /\ calls[1] = "create(json_object)" /\ calls[2] = Rejection)
          => Len(calls) >= 3 /\ calls[3] = "create(plain)"

TransportFailed == \E k \in 1..Len(calls) : calls[k] \in TransportErrors
RepairFailed == pc = "failed"

\* C19: once a primary request has failed in transport, or the repair has
\* failed, the handler's call issues no further request, and the transport
\* failure is the exception that leaves the call.
C19_FailureSurfaces ==
    [][/\ TransportFailed => cpc = "failed" /\ cerr \in TransportErrors
       /\ ((TransportFailed \/ RepairFailed) /\ clicks' = clicks)
             => ApiRequests' = ApiRequests]_vars

\* the request without the text argument fails in transport after the
\* TypeError of the first
C19_Witness ==
    /\ cpc = "failed"
    /\ calls = <<"create(json_object)", "TypeError", "create(plain)", "RateLimitError">>
    /\ cerr = "RateLimitError"

CompletePoser(v) ==
    /\ IsDict(v)
    /\ \A key \in {K_scene_lock, K_pose_style, K_prompts, K_compact_master_dna} :
          HasKey(v, key)
CompleteCaption(v) == IsDict(v) /\ HasKey(v, K_caption) /\ HasKey(v, K_hashtags)

\* C20: a step that ends a handler in failure leaves poser_data and
\* caption_out as they were, and a stored result changes only in the step
\* that ends its feature's handler with a complete new result.
C20_FailureKeepsStored ==
    [][/\ cpc' = "failed" => poser_data' = poser_data /\ caption_out' = caption_out
       /\ poser_data' # poser_data
             => feature = "poser" /\ cpc' = "done" /\ CompletePoser(poser_data')
       /\ caption_out' # caption_out
             => feature = "caption" /\ cpc' = "done" /\ CompleteCaption(caption_out')]_vars

\* a pose request whose repair failed, after one that stored a result and
\* a caption request that stored one
C20_Witness ==
    /\ cpc = "failed" /\ feature = "poser" /\ cerr = "JSONDecodeError"
    /\ clicks = 3
    /\ CompletePoser(poser_data)
    /\ CompleteCaption(caption_out)

\* ------------------------------------------------------------------------
\* Properties of compact_master_dna_for_poser (SpecDna)
\* ------------------------------------------------------------------------
Stripped == Strip(master_dna)

\* C21: a descriptor whose stripped length is at most 700 comes back
\* stripped and otherwise unchanged; any longer one gives the one fixed
\* summary.
C21_ByStrippedLength ==
    dpc = "returned" =>
        /\ Len(Stripped) <= 700 => compact_dna = Stripped
        /\ Len(Stripped) > 700 => compact_dna = CompactSummary

\* a descriptor of stripped length 700 with blanks around it
C21_Witness ==
    /\ dpc = "returned"
    /\ Len(master_dna) > 700 /\ Len(Stripped) = 700
    /\ compact_dna = Stripped

\* C25: the text returned is never longer than the stripped descriptor.
C25_NeverLonger == dpc = "returned" => Len(compact_dna) <= Len(Stripped)

\* ------------------------------------------------------------------------
\* Further properties of _sanitize_json_text (SpecSan)
\* ------------------------------------------------------------------------
\* C22: a text that parses to an object parses to the same object after
\* the scanner has rewritten it.
C22_ValidObjectUnchanged ==
    (spc = "returned" /\ loads(s).ok /\ loads(s).val.t = "object")
        => loads(out).ok /\ loads(out).val = loads(s).val

\* the first character after position p that is no space, tab, carriage
\* return or line feed; "" when there is none
VisibleAfter(p) ==
    LET K == {k \in (p + 1)..Len(s) : s[k] \notin {SP, TAB, CR, LF}}
    IN IF K = {} THEN "" ELSE s[CHOOSE k \in K : \A j \in K : k <= j]

AtQuote == spc = "scan" /\ i <= Len(s) /\ in_str /\ ~esc /\ s[i] = QUOTE
Closes == in_str' = FALSE /\ out' = Append(out, QUOTE) /\ i' = i + 1
Rewrites == in_str' = TRUE /\ out' = out \o <<BSL, QUOTE>> /\ i' = i + 1

\* C23 as stated: the quote closes the literal when ',', '}' or ']' is
\* the next visible character, and is rewritten in every other case, the
\* end of the input included.
C23_ClosesBeforeDelimiterOnly ==
    [][AtQuote => IF VisibleAfter(i) \in {",", "}", "]"} THEN Closes ELSE Rewrites]_vars

\* C23: the quote closes the literal when ',', '}' or ']' is the next
\* visible character or when only whitespace follows up to the end of the
\* input, and is rewritten before any other character.
C23_ClosesBeforeDelimiterOrEnd ==
    [][AtQuote => IF VisibleAfter(i) \in {",", "}", "]", ""} THEN Closes ELSE Rewrites]_vars

\* a quote rewritten before another character, and a quote that closes
\* the literal at the end of the input
C23_Witness ==
    /\ spc = "returned"
    /\ s = <<QUOTE, QUOTE, QUOTE>>
    /\ out = <<QUOTE, BSL, QUOTE, QUOTE>>
    /\ ~in_str

\* ------------------------------------------------------------------------
\* Properties of the Poser view (SpecView)
\* ------------------------------------------------------------------------
ShownPrompts == Get(poser_data, K_prompts).kids

\* C24: for a stored result with 0 to 5 prompts the selection ends without
\* an exception, the index read lies inside the list, and an empty list
\* gives an empty selection.
C24_SelectionCompletes ==
    (IsDict(poser_data) /\ Len(ShownPrompts) <= 5 /\ vpc # "view") =>
        /\ vpc = "picked"
        /\ IF ShownPrompts = <<>>
           THEN picked = JObject(<<>>)
           ELSE idx \in 0..(Len(ShownPrompts) - 1) /\ picked = ShownPrompts[idx + 1]

====
